---- MODULE Spec2Model ----
(***************************************************************************)
(* Vault-of-Codes: three console utilities.                                *)
(*   Secret_code_generator.py  caesar_cipher(text, shift, direction)       *)
(*   expense_tracker.py        expense list persisted in expenses.csv      *)
(*   To_do_list.py             task list persisted in tasks.json           *)
(* Each program is modelled by its own variables, actions and              *)
(* specification (SpecCipher, SpecExpense, SpecTodo).                      *)
(***************************************************************************)
EXTENDS Integers, Sequences, FiniteSets, TLC

VARIABLES
    \* caesar_cipher: one call, statement by statement
    pc,           \* position inside caesar_cipher
    text,         \* argument text, a sequence of Unicode code points
    key,          \* argument shift as passed by the caller
    direction,    \* argument direction
    shift,        \* the local variable shift (lines 20 and 24 rebind it)
    i,            \* how many characters of text the for loop has consumed
    result_text,  \* the local accumulator
    \* expense_tracker.main
    expPc,        \* "start" (process not running), "menu", "exited"
    expenses,     \* the in-memory list of expense dicts
    csvFile,      \* expenses.csv: its lines, each a sequence of fields
    lastOp,       \* the menu handler that returned last
    \* To_do_list.main
    todoPc,       \* "start", "banner" (line 163 done), "menu", "exited"
    tasks,        \* the in-memory list of Task objects
    tasksFile     \* tasks.json: the JSON array, a sequence of objects

cipherVars == <<pc, text, key, direction, shift, i, result_text>>
expenseVars == <<expPc, expenses, csvFile, lastOp>>
todoVars == <<todoPc, tasks, tasksFile>>
vars == <<cipherVars, expenseVars, todoVars>>

\* A file of the working directory: absent, or present with its content
NoFile == [exists |-> FALSE, content |-> <<>>]
File(content) == [exists |-> TRUE, content |-> content]
\* os.path.exists
Exists(file) == file.exists

(***************************************************************************)
(* Bounds of the model.                                                    *)
(***************************************************************************)
MaxLen == 2        \* longest input text
MaxShift == 27     \* shift keys range over -MaxShift..MaxShift
MaxExpenses == 2   \* longest expense list
MaxTasks == 2      \* longest task list

(***************************************************************************)
(* Characters are Unicode code points.  The sample holds Latin letters of  *)
(* both cases at the ends and inside the alphabet, non-letters, and        *)
(* letters outside a-z/A-Z for which str.isalpha() is true:                *)
(*   233 = e-acute (lowercase), 201 = E-acute (uppercase),                 *)
(*   20013 = a CJK ideograph (a letter without case),                      *)
(*   8490 = KELVIN SIGN (uppercase, whose lower() is Latin 'k').           *)
(***************************************************************************)
LatinLower == 97..122
LatinUpper == 65..90
OtherLower == {233}
OtherUpper == {201, 8490}
OtherCaseless == {20013}
NonLetters == {32, 44, 53}
Chars == {97, 122, 66} \cup NonLetters \cup OtherLower \cup OtherUpper \cup OtherCaseless

\* string.ascii_lowercase, 1-indexed here: alphabet[i + 1] is Python's alphabet[i]
alphabet == [n \in 1..26 |-> 96 + n]

\* str.isalpha() on one character
IsAlpha(char) ==
    char \in LatinLower \cup LatinUpper \cup OtherLower \cup OtherUpper \cup OtherCaseless

\* str.isupper() on one character
IsUpper(char) == char \in LatinUpper \cup OtherUpper

\* str.lower() on one character
Lower(char) ==
    IF char \in LatinUpper THEN char + 32
    ELSE IF char = 201 THEN 233
    ELSE IF char = 8490 THEN 107
    ELSE char

\* str.upper() on a character of the alphabet; the result is a string
Upper(char) == IF char \in LatinLower THEN <<char - 32>> ELSE <<char>>

\* alphabet.find(c): the zero-based index, or -1 when c is not in the alphabet
Find(c) ==
    IF \E n \in 1..26 : alphabet[n] = c
    THEN (CHOOSE n \in 1..26 : alphabet[n] = c) - 1
    ELSE -1

\* line 20 with abs() applied first
Normalize_Abs(s) == (IF s < 0 THEN -s ELSE s) % 26

\* line 20 left out
Normalize_Identity(s) == s

\* line 20: shift %= 26 (Python's % takes the sign of the divisor)
Normalize(s) == s % 26

\* lines 23-24 without the negation
AdjustShift_NoNegate(s, d) == s

\* lines 23-24: if direction == 'decode': shift *= -1
AdjustShift(s, d) == IF d = "decode" THEN s * (-1) ELSE s

\* line 38: new_index = (original_index + shift) % 26
NewIndex(original_index, s) == (original_index + s) % 26

\* the loop body with the case test of line 44 left out
ProcessChar_LowerOnly(char, s) ==
    IF IsAlpha(char)
    THEN <<alphabet[NewIndex(Find(Lower(char)), s) + 1]>>
    ELSE <<char>>

\* the loop body with the isalpha() test of line 29 left out
ProcessChar_NoAlphaTest(char, s) ==
    LET new_char == alphabet[NewIndex(Find(Lower(char)), s) + 1]
    IN  IF IsUpper(char) THEN Upper(new_char) ELSE <<new_char>>

\* the loop body with the else branch of lines 48-50 left out
ProcessChar_DropOther(char, s) ==
    IF IsAlpha(char)
    THEN LET new_char == alphabet[NewIndex(Find(Lower(char)), s) + 1]
         IN  IF IsUpper(char) THEN Upper(new_char) ELSE <<new_char>>
    ELSE <<>>

\* lines 29-50: what one character appends to result_text
ProcessChar(char, s) ==
    IF IsAlpha(char)
    THEN LET original_index == Find(Lower(char))
             new_index == NewIndex(original_index, s)
             new_char == alphabet[new_index + 1]
         IN  IF IsUpper(char) THEN Upper(new_char) ELSE <<new_char>>
    ELSE <<char>>

\* lines 27-50 as a whole: the loop over text[from..]
RECURSIVE Loop(_, _, _)
Loop(t, s, from) ==
    IF from > Len(t) THEN <<>>
    ELSE ProcessChar(t[from], s) \o Loop(t, s, from + 1)

\* lines 3-52: the function's value
caesar_cipher(t, k, d) == Loop(t, AdjustShift(Normalize(k), d), 1)

Texts == UNION {[1..n -> Chars] : n \in 0..MaxLen}
Shifts == (0 - MaxShift)..MaxShift
Directions == {"encode", "decode"}

(***************************************************************************)
(* caesar_cipher as a state machine.                                       *)
(***************************************************************************)
CipherIdle ==
    /\ pc = "idle"
    /\ text = <<>>
    /\ key = 0
    /\ direction = "encode"
    /\ shift = 0
    /\ i = 0
    /\ result_text = <<>>

\* lines 3-17: the call binds the arguments; result_text = ""
CipherEntry ==
    /\ pc = "line20"
    /\ text \in Texts
    /\ key \in Shifts
    /\ direction \in Directions
    /\ shift = key
    /\ i = 0
    /\ result_text = <<>>

\* line 20
Line20 ==
    /\ pc = "line20"
    /\ shift' = Normalize(shift)
    /\ pc' = "line23"
    /\ UNCHANGED <<text, key, direction, i, result_text>>
    /\ UNCHANGED <<expenseVars, todoVars>>

\* lines 23-24
Line23 ==
    /\ pc = "line23"
    /\ shift' = AdjustShift(shift, direction)
    /\ pc' = "loop"
    /\ UNCHANGED <<text, key, direction, i, result_text>>
    /\ UNCHANGED <<expenseVars, todoVars>>

\* lines 27-50: one iteration of the for loop
LoopStep ==
    /\ pc = "loop"
    /\ i < Len(text)
    /\ result_text' = result_text \o ProcessChar(text[i + 1], shift)
    /\ i' = i + 1
    /\ UNCHANGED <<pc, text, key, direction, shift>>
    /\ UNCHANGED <<expenseVars, todoVars>>

\* line 52: the loop is exhausted, return result_text
Return ==
    /\ pc = "loop"
    /\ i = Len(text)
    /\ pc' = "return"
    /\ UNCHANGED <<text, key, direction, shift, i, result_text>>
    /\ UNCHANGED <<expenseVars, todoVars>>

(***************************************************************************)
(* expense_tracker.py                                                      *)
(* The file system is taken to work: open() and the writes succeed, so    *)
(* the except branches of load_expenses and save_expenses are not taken,   *)
(* and expenses.csv is only ever written by this program.                  *)
(***************************************************************************)
\* line 10
HEADERS == <<"date", "amount", "category", "description">>

\* Amounts are floats with two decimals, held as a number of hundredths.
\* What the user may type at line 69; non-positive ones are asked again.
AmountInputs == {-500, 0, 1200, 5075}

\* What the user may type at line 54, and the strings strptime accepts (line 60)
DateInputs == {"", "2024-01-15", "15/01/2024"}
ValidDates == {"2024-01-15"}
\* datetime.now().strftime("%Y-%m-%d"), lines 56 and 64
Today == "2024-02-01"

\* What the user may type at lines 78 and 81
CategoryInputs == {"food", " Rent "}
DescriptionInputs == {" lunch, cafe "}

\* str.strip() on the strings above
Strip(str) ==
    CASE str = " Rent " -> "Rent"
      [] str = " lunch, cafe " -> "lunch, cafe"
      [] OTHER -> str

\* str.title() on the stripped categories
Title(str) ==
    CASE str = "food" -> "Food"
      [] OTHER -> str

\* str(amount) as csv writes a float: "50.75", "12.0"
FloatStr(amount) == [whole |-> amount \div 100, frac |-> amount % 100]

\* float(s), line 31
ParseFloat(s) == s.whole * 100 + s.frac

\* csv.DictWriter.writerow: the dict's values in the order of fieldnames
WriteRow(expense) ==
    [k \in 1..Len(HEADERS) |->
        IF HEADERS[k] = "amount" THEN FloatStr(expense.amount)
        ELSE expense[HEADERS[k]]]

\* csv.DictReader row (lines 28-29) and line 31: a dict keyed by the header line
ReadRow(fieldnames, row) ==
    LET at(name) == row[CHOOSE k \in 1..Len(fieldnames) : fieldnames[k] = name]
    IN  [date |-> at("date"),
         amount |-> ParseFloat(at("amount")),
         category |-> at("category"),
         description |-> at("description")]

\* lines 14-20: initialize_file, the file's content afterwards
initialize_file(file) == IF ~Exists(file) THEN File(<<HEADERS>>) ELSE file

\* lines 25-35: the list load_expenses returns for an existing file
ReadExpenses(file) ==
    [j \in 1..(Len(file.content) - 1) |-> ReadRow(file.content[1], file.content[j + 1])]

\* lines 37-45: save_expenses, the file's content afterwards
save_expenses(es) == File(<<HEADERS>> \o [j \in 1..Len(es) |-> WriteRow(es[j])])

\* list.pop(n - 1), the list afterwards
Pop(list, n) == [j \in 1..(Len(list) - 1) |-> IF j < n THEN list[j] ELSE list[j + 1]]

ExpenseIdle ==
    /\ expPc = "start"
    /\ expenses = <<>>
    /\ csvFile = NoFile
    /\ lastOp = "none"

\* line 213, at the start of a run of the program: expenses = load_expenses()
ExpenseLoad ==
    /\ expPc \in {"start", "exited"}
    /\ csvFile' = initialize_file(csvFile)
    /\ expenses' = ReadExpenses(csvFile')
    /\ expPc' = "menu"
    /\ lastOp' = "none"
    /\ UNCHANGED <<cipherVars, todoVars>>

\* lines 49-93, choice '1'
add_expense ==
    /\ expPc = "menu"
    /\ Len(expenses) < MaxExpenses
    /\ \E date_str \in DateInputs, amount \in AmountInputs,
          category \in CategoryInputs, description \in DescriptionInputs :
          /\ amount > 0
          /\ LET date == IF Strip(date_str) = "" THEN Today
                         ELSE IF Strip(date_str) \in ValidDates THEN Strip(date_str)
                         ELSE Today
                 new_expense == [date |-> date,
                                 amount |-> amount,
                                 category |-> Title(Strip(category)),
                                 description |-> Strip(description)]
             IN  /\ expenses' = Append(expenses, new_expense)
                 /\ csvFile' = save_expenses(expenses')
    /\ lastOp' = "add"
    /\ UNCHANGED expPc
    /\ UNCHANGED <<cipherVars, todoVars>>

\* lines 96-136, choice '2': prints only
view_summaries ==
    /\ expPc = "menu"
    /\ lastOp' = "view"
    /\ UNCHANGED <<expPc, expenses, csvFile>>
    /\ UNCHANGED <<cipherVars, todoVars>>

\* delete_expense without line 158
delete_expense_NoSave ==
    /\ expPc = "menu"
    /\ IF expenses = <<>>
       THEN UNCHANGED <<expenses, csvFile>>
       ELSE \E choice \in 0..Len(expenses) :
               IF choice = 0
               THEN UNCHANGED <<expenses, csvFile>>
               ELSE /\ expenses' = Pop(expenses, choice)
                    /\ UNCHANGED csvFile
    /\ lastOp' = "delete"
    /\ UNCHANGED expPc
    /\ UNCHANGED <<cipherVars, todoVars>>

\* lines 140-164, choice '3'.  Numbers out of range and non-numbers are asked
\* again (lines 161-164) and change nothing; choice is the answer that ends the loop.
delete_expense ==
    /\ expPc = "menu"
    /\ IF expenses = <<>>
       THEN UNCHANGED <<expenses, csvFile>>
       ELSE \E choice \in 0..Len(expenses) :
               IF choice = 0
               THEN UNCHANGED <<expenses, csvFile>>
               ELSE /\ expenses' = Pop(expenses, choice)
                    /\ csvFile' = save_expenses(expenses')
    /\ lastOp' = "delete"
    /\ UNCHANGED expPc
    /\ UNCHANGED <<cipherVars, todoVars>>

\* lines 166-206, choice '4': shows a plot only
plot_expenses_by_category ==
    /\ expPc = "menu"
    /\ lastOp' = "plot"
    /\ UNCHANGED <<expPc, expenses, csvFile>>
    /\ UNCHANGED <<cipherVars, todoVars>>

\* lines 235-238, choice '5'
ExpenseExit ==
    /\ expPc = "menu"
    /\ expPc' = "exited"
    /\ UNCHANGED <<expenses, csvFile, lastOp>>
    /\ UNCHANGED <<cipherVars, todoVars>>

\* lines 239-240, any other choice
ExpenseInvalidChoice ==
    /\ expPc = "menu"
    /\ lastOp' = "invalid"
    /\ UNCHANGED <<expPc, expenses, csvFile>>
    /\ UNCHANGED <<cipherVars, todoVars>>

(***************************************************************************)
(* To_do_list.py                                                           *)
(* tasks.json is only ever written by save_tasks, so json.load succeeds    *)
(* and the except branch of load_tasks (a corrupted file) is not taken.    *)
(***************************************************************************)
\* What the user may type at lines 89-91: title, description, category
TaskInputs == {<<"buy milk", "2 litres", "Home">>, <<"report", "", "Work">>}

\* lines 16-21: Task.__init__
Task(title, description, category, completed) ==
    [title |-> title, description |-> description,
     category |-> category, completed |-> completed]

\* lines 27-34: Task.to_dict
to_dict(task) ==
    [title |-> task.title, description |-> task.description,
     category |-> task.category, completed |-> task.completed]

\* json.dump of one dict (line 60): strings become string tokens, booleans the
\* literals true and false
JsonString(str) == [string |-> str]
JsonBool(b) == IF b THEN "true" ELSE "false"
JsonDumpObject(dict) ==
    [title |-> JsonString(dict.title), description |-> JsonString(dict.description),
     category |-> JsonString(dict.category), completed |-> JsonBool(dict.completed)]

\* json.load of one object (line 74)
JsonLoadObject(obj) ==
    [title |-> obj.title.string, description |-> obj.description.string,
     category |-> obj.category.string, completed |-> (obj.completed = "true")]

\* from_dict that does not read 'completed'
from_dict_NoCompleted(data) == Task(data.title, data.description, data.category, FALSE)

\* lines 36-44: Task.from_dict
from_dict(data) ==
    Task(data.title, data.description, data.category,
         IF "completed" \in DOMAIN data THEN data.completed ELSE FALSE)

\* lines 51-61: save_tasks, the file's content afterwards
save_tasks(ts) == File([j \in 1..Len(ts) |-> JsonDumpObject(to_dict(ts[j]))])

\* lines 63-79: load_tasks
load_tasks(file) ==
    IF ~Exists(file) THEN <<>>
    ELSE [j \in 1..Len(file.content) |-> from_dict(JsonLoadObject(file.content[j]))]

TodoIdle ==
    /\ todoPc = "start"
    /\ tasks = <<>>
    /\ tasksFile = NoFile

\* line 163, at the start of a run of the program: tasks = load_tasks()
TodoLoad ==
    /\ todoPc \in {"start", "exited"}
    /\ tasks' = load_tasks(tasksFile)
    /\ todoPc' = "banner"
    /\ UNCHANGED tasksFile
    /\ UNCHANGED <<cipherVars, expenseVars>>

\* lines 165-169: the banner, then the menu loop is entered
TodoBanner ==
    /\ todoPc = "banner"
    /\ todoPc' = "menu"
    /\ UNCHANGED <<tasks, tasksFile>>
    /\ UNCHANGED <<cipherVars, expenseVars>>

\* lines 81-95, choice '1'
add_task ==
    /\ todoPc = "menu"
    /\ Len(tasks) < MaxTasks
    /\ \E in \in TaskInputs :
          tasks' = Append(tasks, Task(in[1], in[2], in[3], FALSE))
    /\ UNCHANGED <<todoPc, tasksFile>>
    /\ UNCHANGED <<cipherVars, expenseVars>>

\* lines 97-111, choice '2': prints only
view_tasks ==
    /\ todoPc = "menu"
    /\ UNCHANGED <<todoPc, tasks, tasksFile>>
    /\ UNCHANGED <<cipherVars, expenseVars>>

\* lines 113-132, choice '3'; a task_num out of range, like a non-number
\* (lines 129-132), changes nothing
mark_task_completed ==
    /\ todoPc = "menu"
    /\ IF tasks = <<>>
       THEN UNCHANGED tasks
       ELSE \E task_num \in 0..(Len(tasks) + 1) :
               IF 1 <= task_num /\ task_num <= Len(tasks)
               THEN tasks' = [tasks EXCEPT ![task_num].completed = TRUE]
               ELSE UNCHANGED tasks
    /\ UNCHANGED <<todoPc, tasksFile>>
    /\ UNCHANGED <<cipherVars, expenseVars>>

\* lines 134-157, choice '4'; a task_num out of range, like a non-number
\* (lines 153-156), changes nothing
delete_task ==
    /\ todoPc = "menu"
    /\ IF tasks = <<>>
       THEN UNCHANGED tasks
       ELSE \E task_num \in 0..(Len(tasks) + 1) :
               IF 1 <= task_num /\ task_num <= Len(tasks)
               THEN tasks' = Pop(tasks, task_num)
               ELSE UNCHANGED tasks
    /\ UNCHANGED <<todoPc, tasksFile>>
    /\ UNCHANGED <<cipherVars, expenseVars>>

\* lines 187-190, choice '5'
SaveAndExit ==
    /\ todoPc = "menu"
    /\ tasksFile' = save_tasks(tasks)
    /\ todoPc' = "exited"
    /\ UNCHANGED tasks
    /\ UNCHANGED <<cipherVars, expenseVars>>

\* lines 191-192, any other choice
TodoInvalidChoice ==
    /\ todoPc = "menu"
    /\ UNCHANGED <<todoPc, tasks, tasksFile>>
    /\ UNCHANGED <<cipherVars, expenseVars>>

(***************************************************************************)
(* Specifications, one per program.                                        *)
(***************************************************************************)
InitCipher == CipherEntry /\ ExpenseIdle /\ TodoIdle
NextCipher == Line20 \/ Line23 \/ LoopStep \/ Return
SpecCipher == InitCipher /\ [][NextCipher]_vars

InitExpense == CipherIdle /\ ExpenseIdle /\ TodoIdle
NextExpense ==
    \/ ExpenseLoad
    \/ add_expense
    \/ view_summaries
    \/ delete_expense
    \/ plot_expenses_by_category
    \/ ExpenseExit
    \/ ExpenseInvalidChoice
SpecExpense == InitExpense /\ [][NextExpense]_vars

InitTodo == CipherIdle /\ ExpenseIdle /\ TodoIdle
NextTodo ==
    \/ TodoLoad
    \/ TodoBanner
    \/ add_task
    \/ view_tasks
    \/ mark_task_completed
    \/ delete_task
    \/ SaveAndExit
    \/ TodoInvalidChoice
SpecTodo == InitTodo /\ [][NextTodo]_vars

(***************************************************************************)
(* Properties of caesar_cipher (SpecCipher).                               *)
(* result_text[j] is the output for text[j], for every j consumed so far.  *)
(***************************************************************************)
IsLatin(char) == char \in LatinLower \cup LatinUpper

\* str.islower() on one character
IsLower(char) == char \in LatinLower \cup OtherLower

\* the zero-based alphabet position of a Latin letter, either case
Position(char) == IF char \in LatinLower THEN char - 97 ELSE char - 65

\* C1: round trip.  When an encode call has returned, decoding its result with
\* the same key gives back the input text, for every text and every key.
C1_RoundTrip ==
    (pc = "return" /\ direction = "encode")
        => caesar_cipher(result_text, key, "decode") = text

\* the round trip on texts that hold no letter outside a-z/A-Z
RoundTripLatin ==
    (pc = "return" /\ direction = "encode"
        /\ \A j \in 1..Len(text) : IsAlpha(text[j]) => IsLatin(text[j]))
        => caesar_cipher(result_text, key, "decode") = text

\* C2: a letter outside a-z/A-Z (isalpha() true, not a Latin letter) comes out
\* unchanged, at the same position, for every key and either direction.
C2_NonLatinLetterUnchanged ==
    \A j \in 1..Len(result_text) :
        (IsAlpha(text[j]) /\ ~IsLatin(text[j])) => result_text[j] = text[j]

\* C3: a Latin letter at position p comes out as the letter at position
\* (p + key) mod 26 when encoding and (p - key) mod 26 when decoding (floor
\* modulo), whatever its case and whatever the key's sign and size; and the
\* three worked examples: 'abc' by -2 is 'yza', 'abcXYZ' by 2 is 'cdeZAB'
\* (both evaluated at the entry of each call), a key of 0 changes nothing.
C3_LatinLetterShifted ==
    /\ \A j \in 1..Len(result_text) :
          IsLatin(text[j]) =>
              LET p == Position(text[j])
                  q == IF direction = "encode" THEN (p + key) % 26 ELSE (p - key) % 26
              IN  /\ IsLatin(result_text[j])
                  /\ Position(result_text[j]) = q
    /\ pc = "line20" =>
          /\ caesar_cipher(<<97, 98, 99>>, -2, "encode") = <<121, 122, 97>>
          /\ caesar_cipher(<<97, 98, 99, 88, 89, 90>>, 2, "encode")
                = <<99, 100, 101, 90, 65, 66>>
    /\ (key = 0 /\ \A j \in 1..Len(text) : IsAlpha(text[j]) => IsLatin(text[j]))
          => \A j \in 1..Len(result_text) : result_text[j] = text[j]

C3_Witness ==
    /\ pc = "return"
    /\ direction = "decode"
    /\ key = -27
    /\ text = <<122, 66>>
    /\ result_text = <<97, 67>>

\* C4: case preservation.  For every alphabetic input character, an uppercase
\* one comes out uppercase and a lowercase one comes out lowercase, for every
\* key and either direction.
C4_CasePreserved ==
    \A j \in 1..Len(result_text) :
        IsAlpha(text[j]) =>
            /\ IsUpper(text[j]) => (IsUpper(result_text[j]) /\ ~IsLower(result_text[j]))
            /\ IsLower(text[j]) => (IsLower(result_text[j]) /\ ~IsUpper(result_text[j]))

C4_Witness ==
    /\ pc = "return"
    /\ direction = "decode"
    /\ key = 3
    /\ text = <<66, 97>>
    /\ result_text = <<89, 120>>

\* C5: a non-alphabetic input character (digit, punctuation, whitespace) comes
\* out unchanged at the same position, for every key and either direction.
C5_NonAlphaUnchanged ==
    \A j \in 1..Len(result_text) :
        ~IsAlpha(text[j]) => result_text[j] = text[j]

C5_Witness ==
    /\ pc = "return"
    /\ key = 3
    /\ direction = "encode"
    /\ text = <<53, 97>>
    /\ result_text = <<53, 100>>

\* C6: shift periodicity.  What an encode call returns for key is what
\* caesar_cipher returns for key + 26, for every text and every key.
C6_Periodic ==
    (pc = "return" /\ direction = "encode")
        => result_text = caesar_cipher(text, key + 26, "encode")

C6_Witness ==
    /\ pc = "return"
    /\ direction = "encode"
    /\ key = -2
    /\ text = <<97, 122>>
    /\ result_text = <<121, 120>>

\* C7: length preservation.  Every consumed character has appended exactly one
\* character, so the returned text is as long as the input.
C7_LengthPreserved ==
    /\ Len(result_text) = i
    /\ pc = "return" => Len(result_text) = Len(text)

C7_Witness ==
    /\ pc = "return"
    /\ Len(text) = MaxLen
    /\ text[1] = 44
    /\ text[MaxLen] = 201
    /\ Len(result_text) = MaxLen

\* the loop is about to run lines 30-47 on a letter: line 38 adds shift
AtLetter == pc = "loop" /\ i < Len(text) /\ IsAlpha(text[i + 1])

\* C10 as stated: the shift that line 38 adds to a letter's position is in
\* 0..25, in both directions.
C10_EffectiveShiftNonNegative ==
    AtLetter => shift \in 0..25

\* C10 amended: the shift that line 38 adds to a letter's position is in 0..25
\* when encoding and in -25..0 when decoding (the normalized shift negated, not
\* reduced again); the index line 38 computes from it is in 0..25 all the same.
C10_EffectiveShiftRange ==
    AtLetter =>
        /\ direction = "encode" => shift \in 0..25
        /\ direction = "decode" => shift \in (0 - 25)..0
        /\ NewIndex(Find(Lower(text[i + 1])), shift) \in 0..25

C10_Witness ==
    /\ AtLetter
    /\ direction = "decode"
    /\ key = 27
    /\ shift = -1
    /\ text[i + 1] = 97

C9_SaveLoadRoundTrip ==
    /\ todoPc = "exited" => (Exists(tasksFile) /\ load_tasks(tasksFile) = tasks)
    /\ (todoPc = "banner" /\ ~Exists(tasksFile)) => tasks = <<>>

C9_Witness ==
    /\ todoPc = "exited"
    /\ Len(tasks) = 2
    /\ tasks[1].completed
    /\ ~tasks[2].completed
    /\ tasks[1].title = "report"
    /\ Len(tasksFile.content) = 2

====
